---------------------------- MODULE Spec2Model ----------------------------
(***************************************************************************)
(* A model of analyze_tickets.py: the run of the __main__ block over one   *)
(* spreadsheet (redirect output, prepare_data, generate_output and its     *)
(* three report sections, restore output), and the pure helper             *)
(* parse_age_to_hours.                                                     *)
(*                                                                         *)
(* Text is modelled as a sequence of one-character strings, so that        *)
(* lower-casing, substring tests and the regular expressions of the source *)
(* are computed and not assumed.  A spreadsheet cell is a record           *)
(* [k, s, day, tod, n]: k = "nan" (empty cell), "str" (text s), "ts" (a    *)
(* timestamp: calendar day `day`, time of day `tod`) or "num" (number n).  *)
(* Hours are kept in sixtieths of an hour, so minutes/60 is exact.         *)
(***************************************************************************)
EXTENDS Integers, Sequences, FiniteSets, TLC

VARIABLES
    file,           \* the spreadsheet on disk: [columns, data]
    today,          \* datetime.now().date() during the run
    pc,             \* position of the run in the __main__ block
    sys_stdout,     \* the process-wide destination of print
    out,            \* the lines printed so far, in order
    df,             \* prepare_data's DataFrame (None before it is read)
    closed_column,  \* prepare_data's closed_column
    result,         \* prepare_data's result
    open_tickets,   \* row numbers returned by analyze_open_tickets_by_priority
    exception,      \* the unhandled exception that ended the run, if any
    age_str,        \* argument of a direct call of parse_age_to_hours
    ret_hours       \* what that call returned (NotCalled before the call)

vars == <<file, today, pc, sys_stdout, out, df, closed_column, result,
          open_tickets, exception, age_str, ret_hours>>

---------------------------------------------------------------------------
(* Bounds of the model *)

\* most rows of a table in the column-subset tables
MaxRows == 2
\* most rows of a table in the open/closed tables
MaxOpenRows == 2
\* most rows of a table in the age tables
MaxBucketRows == 2
\* most rows of a table in the first-response tables
MaxFRRows == 2
\* most rows of a table in the priority-breakdown tables
MaxPrioRows == 3
\* longest Age text given to parse_age_to_hours directly
MaxAgeLen == 5
\* most rows of a table in the daily-report tables
MaxDailyRows == 3
HugeDigits == 312

---------------------------------------------------------------------------
(* Text *)

\* the lower-case letter of each upper-case letter
LowerCase ==
    [A |-> "a", B |-> "b", C |-> "c", D |-> "d", E |-> "e", F |-> "f", G |-> "g",
     H |-> "h", I |-> "i", J |-> "j", K |-> "k", L |-> "l", M |-> "m", N |-> "n",
     O |-> "o", P |-> "p", Q |-> "q", R |-> "r", S |-> "s", T |-> "t", U |-> "u",
     V |-> "v", W |-> "w", X |-> "x", Y |-> "y", Z |-> "z"]

\* str.lower() on one character
LowerChar(c) == IF c \in DOMAIN LowerCase THEN LowerCase[c] ELSE c

\* str.lower()
Lower(s) == [i \in 1..Len(s) |-> LowerChar(s[i])]

\* needle in hay
Contains(hay, needle) ==
    \E i \in 0..(Len(hay) - Len(needle)) : SubSeq(hay, i + 1, i + Len(needle)) = needle

Range(s) == {s[i] : i \in 1..Len(s)}

Reverse(s) == [i \in 1..Len(s) |-> s[Len(s) + 1 - i]]

\* the elements of s at the positions in S, in the order of s
RECURSIVE Pick(_, _, _)
Pick(s, S, i) ==
    IF i > Len(s) THEN <<>>
    ELSE IF i \in S THEN <<s[i]>> \o Pick(s, S, i + 1)
    ELSE Pick(s, S, i + 1)

RECURSIVE SumSeq(_)
SumSeq(s) == IF s = <<>> THEN 0 ELSE Head(s) + SumSeq(Tail(s))

---------------------------------------------------------------------------
(* Cells *)

NaN == [k |-> "nan", s |-> <<>>, day |-> 0, tod |-> 0, n |-> 0]
Str(s) == [k |-> "str", s |-> s, day |-> 0, tod |-> 0, n |-> 0]
Ts(d, t) == [k |-> "ts", s |-> <<>>, day |-> d, tod |-> t, n |-> 0]
Num(n) == [k |-> "num", s |-> <<>>, day |-> 0, tod |-> 0, n |-> n]

\* Series.isna() / pd.isna on one cell (NaN and NaT are both null)
isna(c) == c.k = "nan"
notna(c) == ~isna(c)

\* str(x) of a cell that is not null
PyStr(c) == c.s

---------------------------------------------------------------------------
(* Header and label texts *)

H_Created == <<"C","r","e","a","t","e","d">>
H_Closed == <<"C","l","o","s","e","d">>
H_CloseTime == <<"C","l","o","s","e","T","i","m","e">>
H_State == <<"S","t","a","t","e">>
H_Status == <<"S","t","a","t","u","s">>
H_Priority == <<"P","r","i","o","r","i","t","y">>
H_Age == <<"A","g","e">>
H_FirstResponse == <<"F","i","r","s","t","R","e","s","p","o","n","s","e">>
H_TicketNumber == <<"T","i","c","k","e","t"," ","N","u","m","b","e","r">>
H_Queue == <<"Q","u","e","u","e">>
H_FirstLock == <<"F","i","r","s","t","L","o","c","k">>
H_age_hours == <<"a","g","e","_","h","o","u","r","s">>
H_created_date == <<"c","r","e","a","t","e","d","_","d","a","t","e">>
H_closed_date == <<"c","l","o","s","e","d","_","d","a","t","e">>
H_closed_date_temp == <<"c","l","o","s","e","d","_","d","a","t","e","_","t","e","m","p">>
T_firstresponse == <<"f","i","r","s","t","r","e","s","p","o","n","s","e">>
T_closed == <<"c","l","o","s","e","d">>
T_resolved == <<"r","e","s","o","l","v","e","d">>
P_VeryHigh == <<"1"," ","v","e","r","y"," ","h","i","g","h">>
P_High == <<"2"," ","h","i","g","h">>
P_Normal == <<"3"," ","n","o","r","m","a","l">>
P_Low == <<"4"," ","l","o","w">>
P_VeryLow == <<"5"," ","v","e","r","y"," ","l","o","w">>
St_open == <<"o","p","e","n">>
St_new == <<"n","e","w">>
St_Closed == <<"C","l","o","s","e","d">>
St_closed == <<"c","l","o","s","e","d">>
St_CLOSED == <<"C","L","O","S","E","D">>
St_Resolved == <<"R","e","s","o","l","v","e","d">>
St_ClosedOk == <<"c","l","o","s","e","d"," ","s","u","c","c","e","s","s","f","u","l">>
D_Day1 == <<"2","0","2","5","-","0","1","-","0","1">>
D_Day2Noon == <<"2","0","2","5","-","0","1","-","0","2"," ","1","2",":","0","0">>
D_Bad == <<"p","e","n","d","i","n","g">>
T_Blank == <<" ">>
A_23h59m == <<"2","3"," ","h"," ","5","9"," ","m">>
A_24h == <<"2","4"," ","h">>
A_1d1m == <<"1"," ","d"," ","0"," ","h"," ","1"," ","m">>
A_2d == <<"2"," ","d">>
A_48h1m == <<"4","8"," ","h"," ","1"," ","m">>
A_3d == <<"3"," ","d">>
A_72h1m == <<"7","2"," ","h"," ","1"," ","m">>
A_2h10m == <<"2"," ","h"," ","1","0"," ","m">>
A_1d12h == <<"1"," ","d"," ","1","2"," ","h">>

\* possible_columns of analyze_otrs_tickets
possible_columns ==
    [created |-> <<<<"C","r","e","a","t","e","d">>,
                  <<"C","r","e","a","t","e","T","i","m","e">>,
                  <<"C","r","e","a","t","e"," ","T","i","m","e">>,
                  <<"D","a","t","e"," ","C","r","e","a","t","e","d">>,
                  <<"c","r","e","a","t","e","d">>,
                  <<"c","r","e","a","t","i","o","n","_","d","a","t","e">>>>,
     closed |-> <<<<"C","l","o","s","e","d">>,
                 <<"C","l","o","s","e","T","i","m","e">>,
                 <<"C","l","o","s","e"," ","T","i","m","e">>,
                 <<"D","a","t","e"," ","C","l","o","s","e","d">>,
                 <<"c","l","o","s","e","d">>,
                 <<"c","l","o","s","e","_","d","a","t","e">>>>,
     state |-> <<<<"S","t","a","t","e">>,
                <<"S","t","a","t","u","s">>,
                <<"T","i","c","k","e","t"," ","S","t","a","t","e">>,
                <<"s","t","a","t","e">>,
                <<"s","t","a","t","u","s">>>>,
     ticket_number |-> <<<<"T","i","c","k","e","t"," ","N","u","m","b","e","r">>,
                        <<"T","i","c","k","e","t","N","u","m","b","e","r">>,
                        <<"N","u","m","b","e","r">>,
                        <<"t","i","c","k","e","t","_","n","u","m","b","e","r">>,
                        <<"i","d">>>>]

\* possible_closed_names of prepare_data
possible_closed_names ==
    <<<<"C","l","o","s","e","d">>,
      <<"C","l","o","s","e","T","i","m","e">>,
      <<"C","l","o","s","e"," ","T","i","m","e">>,
      <<"D","a","t","e"," ","C","l","o","s","e","d">>,
      <<"c","l","o","s","e","d">>,
      <<"c","l","o","s","e","_","d","a","t","e">>>>

---------------------------------------------------------------------------
(* DataFrames: [none, columns, data], data a sequence of rows, each row a  *)
(* sequence of cells in the order of columns                               *)

NoneDF == [none |-> TRUE, columns |-> <<>>, data |-> <<>>]
DataFrame(columns, data) == [none |-> FALSE, columns |-> columns, data |-> data]

\* name in df.columns
HasCol(d, name) == name \in Range(d.columns)

ColIndex(d, name) ==
    CHOOSE i \in 1..Len(d.columns) :
        /\ d.columns[i] = name
        /\ \A j \in 1..(i - 1) : d.columns[j] # name

\* len(df)
NRows(d) == Len(d.data)

\* df[name], as the sequence of its cells
Column(d, name) ==
    LET c == ColIndex(d, name)
    IN [r \in 1..NRows(d) |-> d.data[r][c]]

\* df[name] = values
SetColumn(d, name, values) ==
    IF HasCol(d, name)
    THEN LET c == ColIndex(d, name)
         IN [d EXCEPT !.data = [r \in 1..NRows(d) |-> [d.data[r] EXCEPT ![c] = values[r]]]]
    ELSE [d EXCEPT !.columns = Append(d.columns, name),
                   !.data = [r \in 1..NRows(d) |-> Append(d.data[r], values[r])]]

\* the dtype pandas gives a column read from a spreadsheet: an empty table
\* and any column holding text are "object", a column of timestamps and
\* empty cells is "datetime64", a column of empty cells only is "float64"
Dtype(cells) ==
    IF Len(cells) = 0 THEN "object"
    ELSE IF \E i \in 1..Len(cells) : cells[i].k = "str" THEN "object"
    ELSE IF \E i \in 1..Len(cells) : cells[i].k = "ts" THEN "datetime64"
    ELSE "float64"

\* the texts the date parser understands, with the timestamp each denotes
ParseDateText(s) ==
    IF s = D_Day1 THEN Ts(1, 0)
    ELSE IF s = D_Day2Noon THEN Ts(2, 1)
    ELSE NaN

\* pd.to_datetime(x, errors='coerce') on one cell: a timestamp stays, text
\* is parsed, and what does not parse becomes NaT
to_datetime(c) ==
    IF c.k = "ts" THEN c
    ELSE IF c.k = "str" THEN ParseDateText(c.s)
    ELSE NaN

to_datetime_col(cells) == [i \in 1..Len(cells) |-> to_datetime(cells[i])]

\* the rows of 1..n that satisfy keep, as a set of row numbers
RowsWhere(n, keep(_)) == {r \in 1..n : keep(r)}

RECURSIVE SortedSeq(_)
\* sorted(S) for a set of integers
SortedSeq(S) ==
    IF S = {} THEN <<>>
    ELSE LET m == CHOOSE x \in S : \A y \in S : x <= y
         IN <<m>> \o SortedSeq(S \ {m})

\* the cells of a column at the rows in R, in row order
Take(cells, R) == Pick(cells, R, 1)

---------------------------------------------------------------------------
(* Series.value_counts(): null cells dropped, one entry [label, count] per *)
(* distinct value, most frequent first; equal counts keep the order in     *)
(* which the values first occur                                            *)

FirstSeen(cells) ==
    Pick(cells, {i \in 1..Len(cells) :
                    /\ notna(cells[i])
                    /\ \A j \in 1..(i - 1) : cells[j] # cells[i]}, 1)

CountOf(cells, c) == Cardinality({i \in 1..Len(cells) : cells[i] = c})

\* s reordered by ascending key (keys[i] is the key of s[i]), elements of
\* equal key keeping their order
StableSortBy(s, keys) ==
    LET pos(i) == 1 + Cardinality({j \in 1..Len(s) :
                        \/ keys[j] < keys[i]
                        \/ keys[j] = keys[i] /\ j < i})
    IN [p \in 1..Len(s) |-> s[CHOOSE i \in 1..Len(s) : pos(i) = p]]

\* A variant of value_counts that keeps the labels in first-seen order
\* whatever their counts: C5 must tell it from value_counts.
value_counts_first_seen(cells) ==
    LET seen == FirstSeen(cells)
    IN [i \in 1..Len(seen) |-> [label |-> seen[i], count |-> CountOf(cells, seen[i])]]

\* Series.value_counts(): label and count, by descending count, labels of
\* equal count in first-seen order
value_counts(cells) ==
    LET seen == FirstSeen(cells)
        entries == [i \in 1..Len(seen) |-> [label |-> seen[i], count |-> CountOf(cells, seen[i])]]
    IN StableSortBy(entries, [i \in 1..Len(entries) |-> 0 - entries[i].count])

\* Series.dt.date.value_counts().sort_index(): calendar day -> count
daily_counts(cells) ==
    [d \in {cells[i].day : i \in {j \in 1..Len(cells) : notna(cells[j])}} |->
        Cardinality({i \in 1..Len(cells) : notna(cells[i]) /\ cells[i].day = d})]

\* A variant of Get whose default is 1: C11 must tell it from Get.
Get_default_one(f, key) == IF key \in DOMAIN f THEN f[key] ELSE 1

\* Series.get(key, 0)
Get(f, key) == IF key \in DOMAIN f THEN f[key] ELSE 0

\* Series.sum() of a day -> count series
SumCounts(f) ==
    LET days == SortedSeq(DOMAIN f)
    IN SumSeq([i \in 1..Len(days) |-> f[days[i]]])

---------------------------------------------------------------------------
(* parse_age_to_hours *)

Digits == <<"0","1","2","3","4","5","6","7","8","9">>
\* \d
IsDigit(c) == c \in {"0", "1", "2", "3", "4", "5", "6", "7", "8", "9"}
\* \s
IsSpace(c) == c \in {" ", "\t", "\n", "\r"}

DigitVal(c) == (CHOOSE i \in 1..10 : Digits[i] = c) - 1

RECURSIVE IntOf(_)
\* int(text) of a run of decimal digits
IntOf(s) ==
    IF s = <<>> THEN 0
    ELSE 10 * IntOf(SubSeq(s, 1, Len(s) - 1)) + DigitVal(s[Len(s)])

\* \s*u matches s from position j: any number of white-space characters,
\* then the unit
UnitFollows(s, j, unit) ==
    \E k \in j..Len(s) :
       /\ s[k] = unit
       /\ \A p \in j..(k - 1) : IsSpace(s[p])

\* the matches of r'(\d+)\s*u' in s, as <<i, j>> with group 1 = s[i..j-1]:
\* one or more digits, then \s*u
Matches(s, unit) ==
    LET ends == {j \in 2..Len(s) : IsDigit(s[j - 1]) /\ UnitFollows(s, j, unit)}
    IN {m \in (1..Len(s)) \X ends :
          /\ m[1] < m[2]
          /\ \A p \in m[1]..(m[2] - 1) : IsDigit(s[p])}

\* A variant of Search that returns the rightmost match: C9 must tell it
\* from Search.
Search_rightmost(s, unit) ==
    LET all == Matches(s, unit)
    IN IF all = {} THEN <<0, 0>>
       ELSE LET last == {m \in all : \A o \in all : m[2] >= o[2]}
            IN CHOOSE m \in last : \A o \in last : m[1] <= o[1]

\* re.search(r'(\d+)\s*u', s): the leftmost position with a match and there
\* the longest group 1; <<0, 0>> when nothing matches
Search(s, unit) ==
    LET all == Matches(s, unit)
    IN IF all = {} THEN <<0, 0>>
       ELSE LET first == {m \in all : \A o \in all : m[1] <= o[1]}
            IN CHOOSE m \in first : \A o \in first : m[2] >= o[2]

\* match.group(1) when there is a match, and no digit otherwise
Group(s, unit) ==
    LET m == Search(s, unit)
    IN IF m = <<0, 0>> THEN <<>> ELSE SubSeq(s, m[1], m[2] - 1)

\* int(match.group(1)) when there is a match, and the initial 0 otherwise
Component(s, unit) == IntOf(Group(s, unit))

RECURSIVE SignificantDigits(_)
\* the number of digits of int(text) for a run of decimal digits
SignificantDigits(digits) ==
    IF digits = <<>> THEN 0
    ELSE IF digits[1] = "0" THEN SignificantDigits(Tail(digits))
    ELSE Len(digits)

\* sys.float_info.max_10_exp: every int below 10^308 has a float, no int from
\* 10^309 on has one, and none from 10^311 on has one after a division by 60
FloatMax10Exp == 308

\* The return expression adds the int (days * 24) + hours to the float
\* minutes / 60: Python raises OverflowError when the int, or the quotient, is
\* beyond the float range.  Decided here by the number of digits, for numbers
\* of fewer than 308 or more than 311 digits.
OverflowError(c) ==
    /\ notna(c)
    /\ LET s == Lower(PyStr(c))
       IN \E unit \in {"d", "h", "m"} :
             SignificantDigits(Group(s, unit)) > FloatMax10Exp + 3

\* sixtieths of an hour in an hour: the model's unit for an hours value
MinutesPerHour == 60
HoursPerDay == 24

\* parse_age_to_hours(age_str), in sixtieths of an hour:
\* (days * 24) + hours + (minutes / 60)
parse_age_to_hours(c) ==
    IF isna(c) THEN 0
    ELSE LET s == Lower(PyStr(c))
             days == Component(s, "d")
             hours == Component(s, "h")
             minutes == Component(s, "m")
         IN ((days * HoursPerDay) + hours) * MinutesPerHour + minutes

---------------------------------------------------------------------------
(* Printed lines: [tag, txt, nums], the line's kind, the text and the      *)
(* numbers it shows                                                        *)

Line(tag, txt, nums) == [tag |-> tag, txt |-> txt, nums |-> nums]

\* one printed line per entry of a value_counts() result
CountLines(tag, vc) ==
    [i \in 1..Len(vc) |-> Line(tag, PyStr(vc[i].label), <<vc[i].count>>)]

\* one printed line per column header, with its position
HeaderLines(tag, columns) ==
    [i \in 1..Len(columns) |-> Line(tag, columns[i], <<i - 1>>)]

\* one printed line per day of a day -> count series, in day order
DayLines(tag, f) ==
    LET days == SortedSeq(DOMAIN f)
    IN [i \in 1..Len(days) |-> Line(tag, <<>>, <<days[i], f[days[i]]>>)]

---------------------------------------------------------------------------
(* analyze_otrs_tickets and analyze_ticket_statistics *)

\* A variant of FirstMatch that takes the last matching header: C12 must
\* tell it from FirstMatch.
FirstMatch_last(columns, names) ==
    LET col_lower == [i \in 1..Len(columns) |-> Lower(columns[i])]
        name_lower == [a \in 1..Len(names) |-> Lower(names[a])]
        hits == {i \in 1..Len(columns) :
                    \E a \in 1..Len(names) : Contains(col_lower[i], name_lower[a])}
    IN IF hits = {} THEN 0 ELSE CHOOSE i \in hits : \A j \in hits : i >= j

\* the first header, in header order, that contains one of the names,
\* both lower-cased; 0 when there is none
FirstMatch(columns, names) ==
    LET col_lower == [i \in 1..Len(columns) |-> Lower(columns[i])]
        name_lower == [a \in 1..Len(names) |-> Lower(names[a])]
        hits == {i \in 1..Len(columns) :
                    \E a \in 1..Len(names) : Contains(col_lower[i], name_lower[a])}
    IN IF hits = {} THEN 0 ELSE CHOOSE i \in hits : \A j \in hits : i <= j

\* actual_columns: logical field -> header, for the fields that are found
actual_columns(columns) ==
    LET found == [f \in DOMAIN possible_columns |-> FirstMatch(columns, possible_columns[f])]
    IN [key \in {f \in DOMAIN possible_columns : found[f] # 0} |-> columns[found[key]]]

NoResult == [kind |-> "None", keys |-> {}, daily_new |-> <<>>, daily_closed |-> <<>>,
             current_open_count |-> 0]
\* analyze_otrs_tickets returns the DataFrame itself when no column is identified
FrameResult == [NoResult EXCEPT !.kind = "DataFrame"]

\* A variant of StatsOpenRows that takes the closed cells as they were read,
\* without parsing them: C7 must tell it from StatsOpenRows.
StatsOpenRows_unparsed(d, columns) ==
    LET closed == Column(d, columns["closed"])
    IN {r \in 1..NRows(d) : isna(closed[r])}

\* the rows analyze_ticket_statistics counts as current open tickets
StatsOpenRows(d, columns) ==
    LET closed_date == to_datetime_col(Column(d, columns["closed"]))
    IN {r \in 1..NRows(d) : isna(closed_date[r])}

\* analyze_ticket_statistics(df, columns): [ret, out]
analyze_ticket_statistics(d, columns) ==
    LET has_created == "created" \in DOMAIN columns
        has_closed == "closed" \in DOMAIN columns
        created_date == IF has_created THEN to_datetime_col(Column(d, columns["created"])) ELSE <<>>
        closed_date == IF has_closed THEN to_datetime_col(Column(d, columns["closed"])) ELSE <<>>
        closed_tickets == Take(closed_date, {r \in 1..Len(closed_date) : notna(closed_date[r])})
        has_daily_new == has_created
        has_daily_closed == has_closed /\ closed_tickets # <<>>
        daily_new == IF has_daily_new THEN daily_counts(created_date) ELSE <<>>
        daily_closed == IF has_daily_closed THEN daily_counts(closed_tickets) ELSE <<>>
        all_dates == SortedSeq(DOMAIN daily_new \cup DOMAIN daily_closed)
        daily_lines ==
            IF has_daily_new /\ has_daily_closed
            THEN <<Line("Daily Ticket Statistics:", <<>>, <<>>)>> \o
                 [i \in 1..Len(all_dates) |->
                    Line("daily", <<>>, <<all_dates[i], Get(daily_new, all_dates[i]),
                                          Get(daily_closed, all_dates[i])>>)]
            ELSE IF has_daily_new
            THEN <<Line("Daily New Tickets:", <<>>, <<>>)>> \o DayLines("daily_new", daily_new)
            ELSE IF has_daily_closed
            THEN <<Line("Daily Closed Tickets:", <<>>, <<>>)>> \o DayLines("daily_closed", daily_closed)
            ELSE <<>>
        current_open == IF has_closed THEN StatsOpenRows(d, columns) ELSE {}
        open_lines ==
            IF has_closed
            THEN <<Line("Current Open Tickets:", <<>>, <<Cardinality(current_open)>>)>> \o
                 (IF "state" \in DOMAIN columns
                  THEN <<Line("Ticket States Distribution:", <<>>, <<>>)>> \o
                       CountLines("state", value_counts(Column(d, columns["state"])))
                  ELSE <<>>)
            ELSE <<Line("Closed column not found - cannot determine open tickets", <<>>, <<>>)>>
    IN [ret |-> [kind |-> "dict",
                 keys |-> (IF has_daily_new THEN {"daily_new"} ELSE {}) \cup
                          (IF has_daily_closed THEN {"daily_closed"} ELSE {}) \cup
                          (IF has_closed THEN {"current_open_count"} ELSE {}),
                 daily_new |-> daily_new,
                 daily_closed |-> daily_closed,
                 current_open_count |-> Cardinality(current_open)],
        out |-> daily_lines \o open_lines]

\* the keys of possible_columns, in the order of the dict
FieldOrder == <<"created", "closed", "state", "ticket_number">>

\* print(f"Identified columns: {actual_columns}"): the number of entries, then
\* one line per entry, in the order of the dict, with the position of the key
\* in FieldOrder and the header stored for it
IdentifiedLines(columns) ==
    <<Line("Identified columns:", <<>>, <<Cardinality(DOMAIN columns)>>)>> \o
    LET keys == Pick(FieldOrder, {k \in 1..Len(FieldOrder) : FieldOrder[k] \in DOMAIN columns}, 1)
        position(key) == CHOOSE k \in 1..Len(FieldOrder) : FieldOrder[k] = key
    IN [i \in 1..Len(keys) |-> Line("identified", columns[keys[i]], <<position(keys[i])>>)]

\* analyze_otrs_tickets(file_path): [ret, out]; readable says whether
\* pd.read_excel succeeds
analyze_otrs_tickets(f, readable) ==
    IF ~readable
    THEN [ret |-> NoResult,
          out |-> <<Line("Reading Excel file...", <<>>, <<>>),
                    Line("Error reading file:", <<>>, <<>>)>>]
    ELSE LET d == DataFrame(f.columns, f.data)
             columns == actual_columns(d.columns)
             identified == <<Line("Reading Excel file...", <<>>, <<>>)>> \o IdentifiedLines(columns)
         IN IF DOMAIN columns = {}
            THEN [ret |-> FrameResult,
                  out |-> identified \o
                          <<Line("Column mapping needed. Available columns:", <<>>, <<>>)>> \o
                          HeaderLines("available", d.columns)]
            ELSE LET stats == analyze_ticket_statistics(d, columns)
                 IN [ret |-> stats.ret, out |-> identified \o stats.out]

---------------------------------------------------------------------------
(* analyze_firstresponse_empty *)

Banner(title) == <<Line(title, <<>>, <<>>)>>

\* firstresponse_col: position of the first header containing
\* 'firstresponse' when lower-cased; 0 when there is none
firstresponse_col(d) == FirstMatch(d.columns, <<T_firstresponse>>)

\* nan_empty and empty_strings: the rows whose first response (the cells
\* fr of the whole table) is null, and those where it is the empty string
nan_empty(fr) == {r \in 1..Len(fr) : isna(fr[r])}
empty_strings(fr) == {r \in 1..Len(fr) : fr[r] = Str(<<>>)}

\* empty_firstresponse_all
empty_firstresponse_all(fr) == nan_empty(fr) \cup empty_strings(fr)

\* A variant of IsClosedState that compares the label as written: C13 must
\* tell it from IsClosedState.
IsClosedState_as_written(c) ==
    /\ c.k = "str"
    /\ \/ Contains(c.s, T_closed)
       \/ Contains(c.s, T_resolved)

\* .str.lower().str.contains('closed|resolved', na=False) on one State cell
IsClosedState(c) ==
    /\ c.k = "str"
    /\ \/ Contains(Lower(c.s), T_closed)
       \/ Contains(Lower(c.s), T_resolved)

\* empty_firstresponse: the rows kept after the Closed/Resolved exclusion
empty_firstresponse(d, fr) ==
    IF HasCol(d, H_State)
    THEN LET state == Column(d, H_State)
         IN {r \in empty_firstresponse_all(fr) : ~IsClosedState(state[r])}
    ELSE empty_firstresponse_all(fr)

\* priority_order.get(label, 999)
Unranked == 999
priority_order(c) ==
    IF c = Str(P_VeryHigh) THEN 1
    ELSE IF c = Str(P_High) THEN 2
    ELSE IF c = Str(P_Normal) THEN 3
    ELSE Unranked

\* A variant of sorted_priorities that keeps the order of value_counts: C6
\* must tell it from sorted_priorities.
sorted_priorities_by_count(vc) == vc

\* sorted(priority_counts.items(), key=lambda x: priority_order.get(x[0], 999))
sorted_priorities(vc) ==
    StableSortBy(vc, [i \in 1..Len(vc) |-> priority_order(vc[i].label)])

columns_to_show(col) ==
    <<H_TicketNumber, H_Age, H_Created, H_Closed, H_FirstLock, col, H_State, H_Priority>>

\* analyze_firstresponse_empty(df): [out, raised]
analyze_firstresponse_empty(d) ==
    LET head == Banner("FIRST RESPONSE EMPTY ANALYSIS")
        found == firstresponse_col(d)
    IN IF found = 0
       THEN [raised |-> "none",
             out |-> head \o <<Line("FirstResponse column not found in data", <<>>, <<>>)>>
                          \o HeaderLines("Available columns:", d.columns)]
       ELSE IF HasCol(d, H_State) /\ Dtype(Column(d, H_State)) # "object"
       THEN \* Series.str on a column that holds no text
            [raised |-> "AttributeError",
             out |-> head \o <<Line("Using column:", d.columns[found], <<>>)>>]
       ELSE LET fr == Column(d, d.columns[found])
                kept == empty_firstresponse(d, fr)
                all == empty_firstresponse_all(fr)
                totals ==
                    IF HasCol(d, H_State)
                    THEN <<Line("Total records with empty FirstResponse (excluding Closed/Resolved):",
                                <<>>, <<Cardinality(kept)>>),
                           Line(" - Before filtering (all empty FirstResponse):",
                                <<>>, <<Cardinality(all)>>),
                           Line(" - Excluded Closed/Resolved tickets:",
                                <<>>, <<Cardinality(all) - Cardinality(kept)>>)>>
                    ELSE <<Line("Total records with empty FirstResponse:",
                                <<>>, <<Cardinality(kept)>>),
                           Line("State column not available - cannot filter out Closed/Resolved tickets",
                                <<>>, <<>>)>>
                breakdown ==
                    <<Line(" - NaN values:", <<>>, <<Cardinality(nan_empty(fr))>>),
                      Line(" - Empty strings:", <<>>, <<Cardinality(empty_strings(fr))>>)>>
                wanted == columns_to_show(d.columns[found])
                shown == Pick(wanted, {i \in 1..Len(wanted) : HasCol(d, wanted[i])}, 1)
                detail ==
                    <<Line("Detailed Empty FirstResponse Tickets:", <<>>, <<Cardinality(kept)>>)>> \o
                    (IF shown # <<>> THEN HeaderLines("detail column", shown)
                     ELSE <<Line("Required columns not available for detailed view", <<>>, <<>>)>>)
                by_priority ==
                    IF HasCol(d, H_Priority)
                    THEN <<Line("Empty FirstResponse by Priority:", <<>>, <<>>)>> \o
                         CountLines("fr priority",
                            sorted_priorities(value_counts(Take(Column(d, H_Priority), kept))))
                    ELSE <<Line("Priority column not available for analysis", <<>>, <<>>)>>
            IN [raised |-> "none",
                out |-> head \o <<Line("Using column:", d.columns[found], <<>>)>>
                             \o totals \o breakdown \o detail \o by_priority]

---------------------------------------------------------------------------
(* analyze_open_tickets_by_priority *)

\* open_tickets = df[df[closed_column].isna()], as row numbers
OpenRows(d, col) ==
    LET closed == Column(d, col)
    IN {r \in 1..NRows(d) : isna(closed[r])}

\* analyze_open_tickets_by_priority(df, closed_column): [ret, out, raised]
analyze_open_tickets_by_priority(d, col) ==
    LET head == Banner("OPEN TICKETS BY PRIORITY DISTRIBUTION")
    IN IF ~HasCol(d, col)
       THEN \* df[closed_column] on a header the table does not have
            [ret |-> {}, raised |-> "KeyError", out |-> head]
       ELSE LET open == OpenRows(d, col)
            IN [ret |-> open,
                raised |-> "none",
                out |-> head \o
                    <<Line("Total open tickets:", <<>>, <<Cardinality(open)>>)>> \o
                    (IF HasCol(d, H_Priority)
                     THEN <<Line("Open tickets by Priority:", <<>>, <<>>)>> \o
                          CountLines("open priority",
                             value_counts(Take(Column(d, H_Priority), open)))
                     ELSE <<Line("Priority column not available for analysis", <<>>, <<>>)>>)]

---------------------------------------------------------------------------
(* analyze_open_tickets_by_age *)

\* the bucket limits, in hours
Limit24 == 24
Limit48 == 48
Limit72 == 72

\* open_with_age = open_tickets[open_tickets['Age'].notna()]
open_with_age(d, open) ==
    LET age == Column(d, H_Age)
    IN {r \in open : notna(age[r])}

\* A variant of between_24_48h whose lower limit is inclusive: C8 must tell
\* it from between_24_48h.
between_24_48h_from_24(with_age, hrs) ==
    {r \in with_age : hrs[r].n >= Limit24 * MinutesPerHour /\ hrs[r].n <= Limit48 * MinutesPerHour}

\* the four buckets of rows, by the age_hours values hrs (in sixtieths of
\* an hour) of the rows with_age
less_24h(with_age, hrs) ==
    {r \in with_age : hrs[r].n <= Limit24 * MinutesPerHour}
between_24_48h(with_age, hrs) ==
    {r \in with_age : hrs[r].n > Limit24 * MinutesPerHour /\ hrs[r].n <= Limit48 * MinutesPerHour}
between_48_72h(with_age, hrs) ==
    {r \in with_age : hrs[r].n > Limit48 * MinutesPerHour /\ hrs[r].n <= Limit72 * MinutesPerHour}
over_72h(with_age, hrs) ==
    {r \in with_age : hrs[r].n > Limit72 * MinutesPerHour}

\* len(df[df[name].dt.date == today]) for a column of timestamps
CountOnDay(cells, day) ==
    Cardinality({r \in 1..Len(cells) : notna(cells[r]) /\ cells[r].day = day})

\* closed_date_temp: the Closed column parsed when its dtype is object,
\* and taken as it is otherwise
closed_date_temp(d) ==
    IF Dtype(Column(d, H_Closed)) = "object"
    THEN to_datetime_col(Column(d, H_Closed))
    ELSE Column(d, H_Closed)

\* analyze_open_tickets_by_age(df, open_tickets): [out, raised]
analyze_open_tickets_by_age(d, open, day) ==
    LET head == Banner("OPEN TICKETS BY AGE DISTRIBUTION ANALYSIS")
    IN IF ~(HasCol(d, H_Age) /\ HasCol(d, H_age_hours))
       THEN [raised |-> "none",
             out |-> head \o <<Line("Age data not available for analysis", <<>>, <<>>)>>]
       ELSE LET with_age == open_with_age(d, open)
                hrs == Column(d, H_age_hours)
                buckets ==
                    <<Line("Open tickets < 24 hours:", <<>>, <<Cardinality(less_24h(with_age, hrs))>>),
                      Line("Open tickets 24-48 hours:", <<>>, <<Cardinality(between_24_48h(with_age, hrs))>>),
                      Line("Open tickets 48-72 hours:", <<>>, <<Cardinality(between_48_72h(with_age, hrs))>>),
                      Line("Open tickets > 72 hours:", <<>>, <<Cardinality(over_72h(with_age, hrs))>>)>>
                new_today ==
                    IF HasCol(d, H_created_date)
                    THEN <<Line("New tickets today:", <<>>,
                                <<CountOnDay(Column(d, H_created_date), day)>>)>>
                    ELSE <<Line("Created date information not available for daily count", <<>>, <<>>)>>
            IN IF ~HasCol(d, H_Closed)
               THEN [raised |-> "none",
                     out |-> head \o buckets \o new_today \o
                         <<Line("Closed date information not available for today's count", <<>>, <<>>)>>]
               ELSE IF Dtype(Column(d, H_Closed)) = "float64"
               THEN \* Series.dt on a column that holds no timestamp
                    [raised |-> "AttributeError", out |-> head \o buckets \o new_today]
               ELSE [raised |-> "none",
                     out |-> head \o buckets \o new_today \o
                         <<Line("Closed tickets today:", <<>>,
                                <<CountOnDay(closed_date_temp(d), day)>>)>>]

---------------------------------------------------------------------------
(* prepare_data and generate_output *)

\* the DataFrame prepare_data returns: the table with the derived columns
PreparedFrame(f) ==
    LET d0 == DataFrame(f.columns, f.data)
        d1 == IF HasCol(d0, H_Age)
              THEN LET age == Column(d0, H_Age)
                   IN SetColumn(d0, H_age_hours,
                        [r \in 1..NRows(d0) |-> Num(parse_age_to_hours(age[r]))])
              ELSE d0
    IN IF HasCol(d1, H_Created)
       THEN SetColumn(d1, H_created_date, to_datetime_col(Column(d1, H_Created)))
       ELSE d1

\* A variant of prepare_data that reports a failed read and goes on with the
\* table: C14 must tell it from prepare_data.
prepare_data_goes_on(f, read1, read2) ==
    LET found == FirstMatch(f.columns, possible_closed_names)
        summary_call == analyze_otrs_tickets(f, TRUE)
    IN [df |-> PreparedFrame(f),
        closed_column |-> IF found # 0 THEN f.columns[found] ELSE H_State,
        result |-> summary_call.ret,
        out |-> (IF read1 /\ read2 THEN <<>> ELSE <<Line("Error processing file:", <<>>, <<>>)>>) \o
                <<Line("Total records:", <<>>, <<Len(f.data)>>)>> \o summary_call.out]

\* prepare_data(file_path): [df, closed_column, result, out]; read1 and read2
\* say whether its own pd.read_excel and that of analyze_otrs_tickets succeed
prepare_data(f, read1, read2) ==
    IF ~read1
    THEN [df |-> NoneDF, closed_column |-> <<>>, result |-> NoResult,
          out |-> <<Line("Error processing file:", <<>>, <<>>)>>]
    ELSE LET found == FirstMatch(f.columns, possible_closed_names)
             summary_call == analyze_otrs_tickets(f, read2)
         IN [df |-> PreparedFrame(f),
             closed_column |-> IF found # 0 THEN f.columns[found] ELSE H_State,
             result |-> summary_call.ret,
             out |-> <<Line("Reading Excel file:", <<>>, <<>>),
                       Line("Total records:", <<>>, <<Len(f.data)>>)>> \o
                     (IF found = 0
                      THEN <<Line("Warning: Closed column not found, using State column for open ticket identification",
                                  <<>>, <<>>)>>
                      ELSE <<>>) \o
                     summary_call.out]

\* the ANALYSIS SUMMARY block of generate_output, printed when result is a dict
summary(d, res, day) ==
    IF res.kind # "dict" THEN <<>>
    ELSE Banner("ANALYSIS SUMMARY") \o
         (IF HasCol(d, H_created_date)
          THEN <<Line("New tickets today:", <<>>, <<CountOnDay(Column(d, H_created_date), day)>>)>>
          ELSE <<Line("Created date information not available for today's count", <<>>, <<>>)>>) \o
         (IF "daily_closed" \in res.keys
          THEN <<Line("Total closed tickets:", <<>>, <<SumCounts(res.daily_closed)>>)>>
          ELSE <<>>) \o
         (IF "current_open_count" \in res.keys
          THEN <<Line("Current open tickets:", <<>>, <<res.current_open_count>>)>>
          ELSE <<>>)

---------------------------------------------------------------------------
(* The run of the __main__ block *)

\* sys.stdout = f, and the two title lines
Redirect ==
    /\ pc = "start"
    /\ sys_stdout' = "logfile"
    /\ out' = out \o <<Line("OTRS TICKET ANALYSIS", <<>>, <<>>)>>
    /\ pc' = "prepare_data"
    /\ UNCHANGED <<file, today, df, closed_column, result, open_tickets, exception,
                   age_str, ret_hours>>

\* df, closed_column, result = prepare_data(file_path), and the test
\* "if df is not None" that follows it
PrepareData ==
    /\ pc = "prepare_data"
    /\ \E read1, read2 \in BOOLEAN :
          \E r \in {prepare_data(file, read1, read2)} :
             /\ df' = r.df
             /\ closed_column' = r.closed_column
             /\ result' = r.result
             /\ out' = out \o r.out
             /\ pc' = IF r.df.none THEN "restore" ELSE "generate_output"
    /\ UNCHANGED <<file, today, sys_stdout, open_tickets, exception, age_str, ret_hours>>

\* generate_output up to its first section: the early return and the summary
GenerateOutput ==
    /\ pc = "generate_output"
    /\ IF df.none \/ result.kind = "None"
       THEN /\ pc' = "restore"
            /\ out' = out
       ELSE /\ pc' = "firstresponse"
            /\ out' = out \o summary(df, result, today)
    /\ UNCHANGED <<file, today, sys_stdout, df, closed_column, result, open_tickets,
                   exception, age_str, ret_hours>>

\* 2. analyze_firstresponse_empty(df)
AnalyzeFirstResponseEmpty ==
    /\ pc = "firstresponse"
    /\ \E r \in {analyze_firstresponse_empty(df)} :
          /\ out' = out \o r.out
          /\ exception' = r.raised
          /\ pc' = IF r.raised = "none" THEN "by_priority" ELSE "crashed"
    /\ UNCHANGED <<file, today, sys_stdout, df, closed_column, result, open_tickets,
                   age_str, ret_hours>>

\* 3. open_tickets = analyze_open_tickets_by_priority(df, closed_column)
AnalyzeOpenTicketsByPriority ==
    /\ pc = "by_priority"
    /\ \E r \in {analyze_open_tickets_by_priority(df, closed_column)} :
          /\ out' = out \o r.out
          /\ open_tickets' = r.ret
          /\ exception' = r.raised
          /\ pc' = IF r.raised = "none" THEN "by_age" ELSE "crashed"
    /\ UNCHANGED <<file, today, sys_stdout, df, closed_column, result, age_str, ret_hours>>

\* 4. analyze_open_tickets_by_age(df, open_tickets); it adds the column
\* closed_date_temp to df when it gets that far
AnalyzeOpenTicketsByAge ==
    /\ pc = "by_age"
    /\ \E r \in {analyze_open_tickets_by_age(df, open_tickets, today)} :
          /\ out' = out \o r.out
          /\ exception' = r.raised
          /\ pc' = IF r.raised = "none" THEN "restore" ELSE "crashed"
          /\ df' = IF HasCol(df, H_Age) /\ HasCol(df, H_age_hours) /\ HasCol(df, H_Closed)
                   THEN SetColumn(df, H_closed_date_temp, closed_date_temp(df))
                   ELSE df
    /\ UNCHANGED <<file, today, sys_stdout, closed_column, result, open_tickets,
                   age_str, ret_hours>>

\* sys.stdout = original_stdout, the last statement of the with block
RestoreStdout ==
    /\ pc = "restore"
    /\ sys_stdout' = "original"
    /\ pc' = "done"
    /\ UNCHANGED <<file, today, out, df, closed_column, result, open_tickets, exception,
                   age_str, ret_hours>>

Next ==
    \/ Redirect
    \/ PrepareData
    \/ GenerateOutput
    \/ AnalyzeFirstResponseEmpty
    \/ AnalyzeOpenTicketsByPriority
    \/ AnalyzeOpenTicketsByAge
    \/ RestoreStdout

\* a direct call of parse_age_to_hours
CallParseAge ==
    /\ pc = "call"
    /\ IF OverflowError(age_str)
          THEN /\ exception' = "OverflowError"
               /\ pc' = "raised"
               /\ UNCHANGED ret_hours
          ELSE /\ ret_hours' = parse_age_to_hours(age_str)
               /\ pc' = "returned"
               /\ UNCHANGED exception
    /\ UNCHANGED <<file, today, sys_stdout, out, df, closed_column, result, open_tickets,
                   age_str>>

NextAge == CallParseAge

---------------------------------------------------------------------------
(* Inputs *)

\* the run takes place on a day that occurs in the tables (day 1) or on a
\* day that occurs in none (day 3)
TodaySet == {1, 3}

Table(columns, data) == [columns |-> columns, data |-> data]

\* the state of the process before the run, for a spreadsheet drawn from tables
InitRun(tables) ==
    /\ file \in tables
    /\ today \in TodaySet
    /\ pc = "start"
    /\ sys_stdout = "original"
    /\ out = <<>>
    /\ df = NoneDF
    /\ closed_column = <<>>
    /\ result = NoResult
    /\ open_tickets = {}
    /\ exception = "none"
    /\ age_str = NaN
    /\ ret_hours = 0

\* Tables over every non-empty subset of the headers of HeaderPool, in that order or
\* in the reverse order,
\* with up to max rows: odd rows are a closed ticket with a first response,
\* even rows an open ticket without one
HeaderPool ==
    <<H_TicketNumber, H_Created, H_Closed, H_CloseTime, H_State, H_Status,
      H_Priority, H_Age, H_FirstResponse>>

TemplateCell(h, r) ==
    IF r % 2 = 1
    THEN CASE h = H_TicketNumber -> Str(<<"7">>)
           [] h = H_Created -> Ts(1, 0)
           [] h = H_Closed -> Ts(2, 1)
           [] h = H_CloseTime -> Ts(2, 1)
           [] h = H_State -> Str(St_ClosedOk)
           [] h = H_Status -> Str(St_ClosedOk)
           [] h = H_Priority -> Str(P_Normal)
           [] h = H_Age -> Str(A_2d)
           [] h = H_FirstResponse -> Ts(1, 1)
           [] OTHER -> NaN
    ELSE CASE h = H_TicketNumber -> Str(<<"8">>)
           [] h = H_Created -> Ts(2, 0)
           [] h = H_State -> Str(St_open)
           [] h = H_Status -> Str(St_open)
           [] h = H_Priority -> Str(P_VeryHigh)
           [] h = H_Age -> Str(A_2h10m)
           [] OTHER -> NaN

TemplateTable(columns, n) ==
    Table(columns, [r \in 1..n |-> [c \in 1..Len(columns) |-> TemplateCell(columns[c], r)]])

ColumnTables(max) ==
    {TemplateTable(Pick(pool, S, 1), n) :
        pool \in {HeaderPool, Reverse(HeaderPool)},
        S \in (SUBSET (1..Len(HeaderPool))) \ {{}},
        n \in 0..max}

Init == InitRun(ColumnTables(MaxRows))

Spec == Init /\ [][Next]_vars

---------------------------------------------------------------------------
(* Further families of tables, each varying the cells of the columns one   *)
(* group of report lines depends on                                        *)

\* all tables with the given columns and up to max rows out of rows
TablesOf(columns, rows, max) ==
    UNION {{Table(columns, data) : data \in [1..n -> rows]} : n \in 0..max}

\* closed dates: empty, two timestamps, text that is no date, text that is one
ClosedCells == {NaN, Ts(1, 1), Ts(2, 0), Str(D_Bad), Str(D_Day2Noon)}

\* open/closed tables: Created, a closed column under either header,
\* Priority and Age
OpenTables(max) ==
    LET row(p) == <<Ts(1, 0), p[1], p[2], Str(A_2d)>>
    IN UNION {TablesOf(<<H_Created, h, H_Priority, H_Age>>, {row(p) : p \in ClosedCells \X {Str(P_High), Str(P_Normal)}}, max) :
                 h \in {H_Closed, H_CloseTime}}

InitOpen == InitRun(OpenTables(MaxOpenRows))
SpecOpen == InitOpen /\ [][Next]_vars

\* ages on both sides of each bucket limit, and no age
AgeCells ==
    {NaN, Str(A_23h59m), Str(A_24h), Str(A_1d1m), Str(A_2d), Str(A_48h1m),
     Str(A_3d), Str(A_72h1m)}

\* age tables: Closed and Age
BucketTables(max) ==
    LET row(p) == <<p[1], p[2]>>
    IN TablesOf(<<H_Closed, H_Age>>, {row(p) : p \in {NaN, Ts(1, 0)} \X AgeCells}, max)

InitBuckets == InitRun(BucketTables(MaxBucketRows))
SpecBuckets == InitBuckets /\ [][Next]_vars

\* first responses: none, a blank text, a timestamp (the loader reads an
\* empty text as an empty cell, so no cell of a loaded table is '')
FirstResponseCells == {NaN, Str(T_Blank), Ts(1, 1)}
StateCells ==
    {NaN, Str(St_open), Str(St_Closed), Str(St_closed), Str(St_CLOSED), Str(St_Resolved)}

\* first-response tables: FirstResponse, State and Closed
FRTables(max) ==
    LET row(p) == <<p[1], p[2], Ts(2, 0)>>
    IN TablesOf(<<H_FirstResponse, H_State, H_Closed>>, {row(p) : p \in FirstResponseCells \X StateCells}, max)

InitFR == InitRun(FRTables(MaxFRRows))
SpecFR == InitFR /\ [][Next]_vars

\* priorities: the three ranked labels and two labels without a rank
PriorityCells == {Str(P_VeryHigh), Str(P_High), Str(P_Normal), Str(P_Low), Str(P_VeryLow)}

\* priority tables: FirstResponse, Priority and Closed
PrioTables(max) ==
    LET row(p) == <<p[1], p[2], Ts(2, 0)>>
    IN TablesOf(<<H_FirstResponse, H_Priority, H_Closed>>, {row(p) : p \in {NaN, Ts(1, 1)} \X PriorityCells}, max)

InitPrio == InitRun(PrioTables(MaxPrioRows))
SpecPrio == InitPrio /\ [][Next]_vars

\* daily-report tables: Created on two days, and Closed empty, later on the
\* first of them or on a third day
DailyTables(max) ==
    LET row(p) == <<p[1], p[2]>>
    IN TablesOf(<<H_Created, H_Closed>>,
                {row(p) : p \in {Ts(1, 0), Ts(2, 0)} \X {NaN, Ts(1, 1), Ts(3, 0)}}, max)

InitDaily == InitRun(DailyTables(MaxDailyRows))
SpecDaily == InitDaily /\ [][Next]_vars

\* the characters of the Age texts given to parse_age_to_hours directly
AgeAlphabet == {"1", "2", " ", "d", "h", "M"}

\* texts with a character that is no digit, no white space and no unit
A_Malformed == {Str(<<"x">>), Str(<<"1", "x">>), Str(<<"1", "x", "d">>), Str(<<"x", "1", " ", "h">>)}

\* a number of n digits, in days, hours or minutes
HugeAge(n, unit) == Str([i \in 1..n |-> "9"] \o <<" ", unit>>)

\* every text of up to max characters, the null value, four usual ages, the
\* malformed texts and three ages with a number of HugeDigits digits
AgeInputs(max) ==
    {NaN, Str(A_2h10m), Str(A_1d12h), Str(A_3d), Str(A_1d1m)}
        \cup A_Malformed
        \cup {HugeAge(HugeDigits, unit) : unit \in {"d", "H", "m"}}
        \cup UNION {{Str(s) : s \in [1..n -> AgeAlphabet]} : n \in 0..max}

InitAge ==
    /\ age_str \in AgeInputs(MaxAgeLen)
    /\ ret_hours = 0
    /\ pc = "call"
    /\ file = Table(<<>>, <<>>)
    /\ today = 1
    /\ sys_stdout = "original"
    /\ out = <<>>
    /\ df = NoneDF
    /\ closed_column = <<>>
    /\ result = NoResult
    /\ open_tickets = {}
    /\ exception = "none"

SpecAge == InitAge /\ [][NextAge]_vars

---------------------------------------------------------------------------
(* Reading the printed report *)

\* a line of the given kind has been printed
Printed(tag) == \E i \in 1..Len(out) : out[i].tag = tag

\* the first number on the first printed line of the given kind
NumOf(tag) == out[CHOOSE i \in 1..Len(out) :
                     /\ out[i].tag = tag
                     /\ \A j \in 1..(i - 1) : out[j].tag # tag].nums[1]

\* the printed lines of the given kind, in the order printed
LinesOf(tag) == Pick(out, {i \in 1..Len(out) : out[i].tag = tag}, 1)

\* a report section of generate_output has started
SectionStarted ==
    \/ Printed("FIRST RESPONSE EMPTY ANALYSIS")
    \/ Printed("OPEN TICKETS BY PRIORITY DISTRIBUTION")
    \/ Printed("OPEN TICKETS BY AGE DISTRIBUTION ANALYSIS")

\* the table as loaded, without derived columns
Loaded == DataFrame(file.columns, file.data)

---------------------------------------------------------------------------
(* Claims *)

\* C1: when the closed column is found, the rows counted as current open
\* tickets by analyze_ticket_statistics, the rows analyze_open_tickets_by_priority
\* counts as open and hands to analyze_open_tickets_by_age are the same rows:
\* those whose closed value is null after date parsing, text that is no date
\* included.
C1_OpenSetsAgree ==
    (/\ Printed("Total open tickets:")
     /\ result.kind = "dict"
     /\ "current_open_count" \in result.keys)
    => /\ open_tickets = StatsOpenRows(Loaded, actual_columns(file.columns))
       /\ NumOf("Total open tickets:") = result.current_open_count
       /\ \A r \in 1..Len(file.data) :
             r \in open_tickets <=>
                isna(to_datetime(Column(Loaded, actual_columns(file.columns)["closed"])[r]))

\* C2: whatever logical columns a loaded table lacks, the run ends without an
\* unhandled failure, and once generate_output has passed its summary all
\* three sections get to print.
C2_MissingColumnsDegrade ==
    /\ exception = "none"
    /\ pc # "crashed"
    /\ (pc \in {"restore", "done"} /\ Printed("FIRST RESPONSE EMPTY ANALYSIS"))
          => /\ Printed("OPEN TICKETS BY PRIORITY DISTRIBUTION")
             /\ Printed("OPEN TICKETS BY AGE DISTRIBUTION ANALYSIS")

\* C3: when no logical field resolves (analyze_otrs_tickets dumps the headers
\* and returns the table itself), no report section is executed afterwards.
C3_UnmappedStops ==
    (Printed("Column mapping needed. Available columns:") /\ result.kind = "DataFrame")
        => ~SectionStarted

\* C4: in the empty-first-response report the printed NaN count plus the
\* printed empty-string count equals the printed total after excluding
\* Closed/Resolved tickets.
C4_BreakdownPostExclusion ==
    (/\ Printed("Total records with empty FirstResponse (excluding Closed/Resolved):")
     /\ Printed(" - Empty strings:"))
    => NumOf(" - NaN values:") + NumOf(" - Empty strings:") =
          NumOf("Total records with empty FirstResponse (excluding Closed/Resolved):")


\* the rows of the loaded table that enter the empty-first-response
\* priority breakdown, and the priority cell of each row
BreakdownRows == empty_firstresponse(Loaded, Column(Loaded, Loaded.columns[firstresponse_col(Loaded)]))
PriorityOfRow(r) == Column(Loaded, H_Priority)[r]

\* the first row of the breakdown that carries the label, and how many do
FirstRowWith(label) ==
    CHOOSE r \in BreakdownRows :
        /\ PriorityOfRow(r) = Str(label)
        /\ \A q \in BreakdownRows : PriorityOfRow(q) = Str(label) => r <= q
RowsWith(label) == Cardinality({r \in BreakdownRows : PriorityOfRow(r) = Str(label)})

\* the label is one of the three of the rank table
IsRanked(label) == label \in {P_VeryHigh, P_High, P_Normal}

\* C5 as stated: in the empty-first-response priority breakdown the labels
\* without a rank come after all ranked labels and, among themselves, in the
\* order in which the rows first show them, whatever their counts.
C5_UnrankedFirstSeenOrder ==
    LET lines == LinesOf("fr priority")
    IN \A i, j \in 1..Len(lines) :
          i < j =>
             /\ ~(~IsRanked(lines[i].txt) /\ IsRanked(lines[j].txt))
             /\ (~IsRanked(lines[i].txt) /\ ~IsRanked(lines[j].txt))
                   => FirstRowWith(lines[i].txt) < FirstRowWith(lines[j].txt)

\* C5 as amended: the labels without a rank come after all ranked labels and,
\* among themselves, in descending order of the number of tickets that carry
\* them; each line shows that number.
C5_UnrankedByCount ==
    LET lines == LinesOf("fr priority")
    IN /\ \A i \in 1..Len(lines) : lines[i].nums[1] = RowsWith(lines[i].txt)
       /\ \A i, j \in 1..Len(lines) :
             i < j =>
                /\ ~(~IsRanked(lines[i].txt) /\ IsRanked(lines[j].txt))
                /\ (~IsRanked(lines[i].txt) /\ ~IsRanked(lines[j].txt))
                      => RowsWith(lines[i].txt) >= RowsWith(lines[j].txt)

\* two labels without a rank are printed, the more frequent one first although
\* the rows show it later
C5_Witness ==
    LET lines == LinesOf("fr priority")
    IN \E i, j \in 1..Len(lines) :
          /\ i < j
          /\ ~IsRanked(lines[i].txt) /\ ~IsRanked(lines[j].txt)
          /\ RowsWith(lines[i].txt) > RowsWith(lines[j].txt)
          /\ FirstRowWith(lines[i].txt) > FirstRowWith(lines[j].txt)

\* the place the claim gives a label: the three ranked labels in their order,
\* then every other label
PlaceOf(label) ==
    IF label = P_VeryHigh THEN 1
    ELSE IF label = P_High THEN 2
    ELSE IF label = P_Normal THEN 3
    ELSE 4

\* C6: in the empty-first-response priority breakdown '1 very high' is printed
\* before '2 high', that before '3 normal', and that before every label without
\* a rank, whatever the row order and the counts.
C6_RankedOrder ==
    LET lines == LinesOf("fr priority")
    IN \A i, j \in 1..Len(lines) :
          i < j => PlaceOf(lines[i].txt) <= PlaceOf(lines[j].txt)

\* '1 very high' is printed before '3 normal' although fewer tickets carry it
\* and the rows show it later
C6_Witness ==
    LET lines == LinesOf("fr priority")
    IN \E i, j \in 1..Len(lines) :
          /\ i < j
          /\ lines[i].txt = P_VeryHigh /\ lines[j].txt = P_Normal
          /\ lines[i].nums[1] < lines[j].nums[1]
          /\ FirstRowWith(P_VeryHigh) > FirstRowWith(P_Normal)

\* the closed cells of the loaded table, under the header the resolver chose
ClosedCellOfRow(r) == Column(Loaded, actual_columns(file.columns)["closed"])[r]

\* C7: with the closed column present, the number of open tickets plus the
\* number of closed tickets (the sum of the daily closed counts) is the number
\* of rows, open meaning a closed date that is null after parsing.
C7_OpenPlusClosedIsTotal ==
    (result.kind = "dict" /\ "current_open_count" \in result.keys)
    => /\ result.current_open_count + SumCounts(result.daily_closed) = Len(file.data)
       /\ result.current_open_count =
             Cardinality({r \in 1..Len(file.data) : isna(to_datetime(ClosedCellOfRow(r)))})
       /\ Printed("Current open tickets:") =>
             NumOf("Current open tickets:") +
                (IF Printed("Total closed tickets:") THEN NumOf("Total closed tickets:") ELSE 0)
             = NumOf("Total records:")

\* the summary shows open and closed tickets for a table that has a closed
\* date and a closed cell whose text is no date
C7_Witness ==
    /\ Printed("Current open tickets:")
    /\ Printed("Total closed tickets:")
    /\ NumOf("Current open tickets:") >= 1
    /\ NumOf("Total closed tickets:") >= 1
    /\ \E r \in 1..Len(file.data) : ClosedCellOfRow(r) = Str(D_Bad)


\* the open tickets with a non-null raw Age, and the number of them whose
\* age_hours value (in sixtieths of an hour) is above lo and at most hi
AgedOpenRows == {r \in open_tickets : notna(Column(df, H_Age)[r])}
AgedBetween(lo, hi) ==
    Cardinality({r \in AgedOpenRows :
                    /\ Column(df, H_age_hours)[r].n > lo
                    /\ Column(df, H_age_hours)[r].n <= hi})

\* C8: every open ticket with a non-null raw Age is counted in exactly one of
\* the buckets age <= 24, 24 < age <= 48, 48 < age <= 72 and age > 72 hours:
\* each printed count is the number of such tickets in its range, ages of
\* exactly 24, 48 and 72 hours are in the first, second and third range, and
\* the four counts sum to the number of open tickets with a non-null Age.
C8_BucketsPartition ==
    Printed("Open tickets > 72 hours:")
    => /\ NumOf("Open tickets < 24 hours:") = AgedBetween(0 - 1, 24 * 60)
       /\ NumOf("Open tickets 24-48 hours:") = AgedBetween(24 * 60, 48 * 60)
       /\ NumOf("Open tickets 48-72 hours:") = AgedBetween(48 * 60, 72 * 60)
       /\ NumOf("Open tickets > 72 hours:") =
             Cardinality(AgedOpenRows) - AgedBetween(0 - 1, 72 * 60)
       /\ NumOf("Open tickets < 24 hours:") + NumOf("Open tickets 24-48 hours:")
             + NumOf("Open tickets 48-72 hours:") + NumOf("Open tickets > 72 hours:")
             = Cardinality(AgedOpenRows)
       /\ \A r \in AgedOpenRows :
             /\ Column(df, H_Age)[r] = Str(A_24h) => Column(df, H_age_hours)[r].n = 24 * 60
             /\ Column(df, H_Age)[r] = Str(A_2d) => Column(df, H_age_hours)[r].n = 48 * 60
             /\ Column(df, H_Age)[r] = Str(A_3d) => Column(df, H_age_hours)[r].n = 72 * 60

\* the buckets are printed for two open tickets aged exactly 24 and 48 hours,
\* one in the first bucket and one in the second
C8_Witness ==
    /\ Printed("Open tickets > 72 hours:")
    /\ \E r, q \in AgedOpenRows :
          /\ Column(df, H_Age)[r] = Str(A_24h)
          /\ Column(df, H_Age)[q] = Str(A_2d)
    /\ NumOf("Open tickets < 24 hours:") = 1
    /\ NumOf("Open tickets 24-48 hours:") = 1

\* the number in front of position k of s, white space between them allowed:
\* the digits s[b+1..e], none when b = e
NumberBefore(s, k) ==
    LET e == CHOOSE x \in 0..(k - 1) :
                /\ \A p \in (x + 1)..(k - 1) : IsSpace(s[p])
                /\ x = 0 \/ ~IsSpace(s[x])
        b == CHOOSE x \in 0..e :
                /\ \A p \in (x + 1)..e : IsDigit(s[p])
                /\ x = 0 \/ ~IsDigit(s[x])
    IN SubSeq(s, b + 1, e)

\* the positions of the unit in s, and the first of a set of positions
Occurrences(s, unit) == {k \in 1..Len(s) : s[k] = unit}
FirstOf(K) == CHOOSE k \in K : \A o \in K : k <= o

\* the number in front of the first occurrence of the unit, 0 without one
BeforeFirstOccurrence(s, unit) ==
    IF Occurrences(s, unit) = {} THEN 0
    ELSE IntOf(NumberBefore(s, FirstOf(Occurrences(s, unit))))

\* the number in front of the first occurrence of the unit that has a number
\* in front of it, 0 without one
BeforeFirstNumberedOccurrence(s, unit) ==
    LET numbered == {k \in Occurrences(s, unit) : NumberBefore(s, k) # <<>>}
    IN IF numbered = {} THEN 0 ELSE IntOf(NumberBefore(s, FirstOf(numbered)))

\* C9 as stated: the result is (days*24) + hours + minutes/60 where days,
\* hours and minutes are each the number immediately preceding, white space
\* allowed, the first occurrence of 'd', 'h' and 'm' in the lower-cased text,
\* later occurrences being ignored and an absent unit counting 0.
C9_FirstOccurrence ==
    (pc = "returned" /\ notna(age_str))
    => LET s == Lower(PyStr(age_str))
       IN ret_hours = ((BeforeFirstOccurrence(s, "d") * 24) + BeforeFirstOccurrence(s, "h")) * 60
                         + BeforeFirstOccurrence(s, "m")

\* C9 as amended: days, hours and minutes are each the number immediately
\* preceding, white space allowed, the first occurrence of 'd', 'h' and 'm'
\* that has a number in front of it; occurrences without a number are skipped,
\* later numbered occurrences are ignored, a unit without a numbered
\* occurrence counts 0; '1 d 12 h' gives 36 hours, '3 d' 72 hours and
\* '2 h 10 m' 2 hours 10 minutes.
C9_FirstNumberedOccurrence ==
    (pc = "returned" /\ notna(age_str))
    => LET s == Lower(PyStr(age_str))
       IN /\ ret_hours = ((BeforeFirstNumberedOccurrence(s, "d") * 24)
                             + BeforeFirstNumberedOccurrence(s, "h")) * 60
                            + BeforeFirstNumberedOccurrence(s, "m")
          /\ age_str = Str(A_1d12h) => ret_hours = 36 * 60
          /\ age_str = Str(A_3d) => ret_hours = 72 * 60
          /\ age_str = Str(A_2h10m) => ret_hours = 2 * 60 + 10

\* the call has returned one day for 'd1d2d': the first 'd' has no number in
\* front of it and the third one is ignored
C9_Witness ==
    /\ pc = "returned"
    /\ age_str = Str(<<"d", "1", "d", "2", "d">>)
    /\ ret_hours = 24 * 60

\* C10: parse_age_to_hours never raises, returns a number that is not
\* negative, and returns 0 for a null input, for the empty text and for a text
\* without any unit.
C10_TotalNonNegative ==
    /\ pc # "raised"
    /\ pc = "returned" =>
          /\ ret_hours >= 0
          /\ (isna(age_str) \/ \A unit \in {"d", "h", "m"} : Occurrences(Lower(PyStr(age_str)), unit) = {})
                => ret_hours = 0


\* the rows of a column of parsed dates that fall on the day, and the days of
\* two such columns together
RowsOn(dates, day) == {r \in 1..Len(dates) : notna(dates[r]) /\ dates[r].day = day}
DaysOf(created, closed) ==
    {created[r].day : r \in {q \in 1..Len(created) : notna(created[q])}}
       \cup {closed[r].day : r \in {q \in 1..Len(closed) : notna(closed[q])}}

\* the lines list every day of the two columns of dates once, in ascending
\* order, each with the number of rows created and the number of rows closed
\* on it
ListsNewAndClosed(lines, created, closed) ==
    /\ {lines[i].nums[1] : i \in 1..Len(lines)} = DaysOf(created, closed)
    /\ \A i, j \in 1..Len(lines) : i < j => lines[i].nums[1] < lines[j].nums[1]
    /\ \A i \in 1..Len(lines) :
          lines[i].nums = <<lines[i].nums[1],
                            Cardinality(RowsOn(created, lines[i].nums[1])),
                            Cardinality(RowsOn(closed, lines[i].nums[1]))>>

\* the lines list every day of the column of dates once, in ascending order,
\* each with the number of rows created on it and nothing else
ListsNewOnly(lines, created) ==
    /\ {lines[i].nums[1] : i \in 1..Len(lines)} = DaysOf(created, <<>>)
    /\ \A i, j \in 1..Len(lines) : i < j => lines[i].nums[1] < lines[j].nums[1]
    /\ \A i \in 1..Len(lines) :
          lines[i].nums = <<lines[i].nums[1], Cardinality(RowsOn(created, lines[i].nums[1]))>>

\* the statistics have been printed for a table whose created and closed
\* columns are both resolved
BothResolvedAndPrinted ==
    /\ Printed("Current Open Tickets:")
    /\ {"created", "closed"} \subseteq DOMAIN actual_columns(file.columns)

\* the parsed dates of the table's column that the resolver chose for the field
DatesOf(field) == to_datetime_col(Column(file, actual_columns(file.columns)[field]))

\* C11 as stated: when the created and the closed column are both resolved,
\* the daily report lists every date of a creation or a closure once, in
\* ascending order, with its number of new and of closed tickets, 0 on the
\* side where the date does not occur.
C11_DailyReportAlways ==
    BothResolvedAndPrinted =>
       \A created \in {DatesOf("created")} : \A closed \in {DatesOf("closed")} :
          ListsNewAndClosed(LinesOf("daily"), created, closed)

\* C11 as amended: the same, when moreover at least one row has a closed
\* date; when no row has one, the report lists every creation date once, in
\* ascending order, with its number of new tickets and no closed count.
C11_DailyReport ==
    BothResolvedAndPrinted =>
       \A created \in {DatesOf("created")} : \A closed \in {DatesOf("closed")} :
          IF \E r \in 1..Len(closed) : notna(closed[r])
          THEN /\ ListsNewAndClosed(LinesOf("daily"), created, closed)
               /\ LinesOf("daily_new") = <<>>
          ELSE /\ LinesOf("daily") = <<>>
               /\ ListsNewOnly(LinesOf("daily_new"), created)

\* the claim's example: creations on days 1, 1 and 2 and one closure on day 1
\* are reported as day 1 with 2 new and 1 closed, day 2 with 1 new and 0 closed
C11_Witness ==
    /\ BothResolvedAndPrinted
    /\ Len(file.data) = 3
    /\ [i \in 1..Len(LinesOf("daily")) |-> LinesOf("daily")[i].nums] = <<<<1, 2, 1>>, <<2, 1, 0>>>>


\* the positions of the headers that contain an alias of the field, all in
\* lower case; cols are the headers in lower case
HeadersOf(cols, field) ==
    {i \in 1..Len(cols) :
        \E alias \in Range(possible_columns[field]) : Contains(cols[i], Lower(alias))}

\* the lines of the printed map for the field at position k of FieldOrder
IdentifiedFor(k) ==
    Pick(out, {i \in 1..Len(out) : out[i].tag = "identified" /\ out[i].nums = <<k>>}, 1)

\* C12: the printed column map gives each logical field the first header, in
\* header order, whose lower-cased text contains the lower-cased text of one
\* of the field's aliases, whatever the order of the aliases, and gives it
\* unchanged; a field is missing from the map exactly when no header contains
\* one of its aliases, and the map is empty (the header dump is printed)
\* exactly when that holds for every field.
C12_ResolverFirstHeader ==
    (pc = "generate_output" /\ Printed("Identified columns:")) =>
       \A cols \in {[i \in 1..Len(file.columns) |-> Lower(file.columns[i])]} :
          /\ \A k \in 1..Len(FieldOrder) :
                \A hits \in {HeadersOf(cols, FieldOrder[k])} :
                   IF hits = {}
                   THEN IdentifiedFor(k) = <<>>
                   ELSE /\ Len(IdentifiedFor(k)) = 1
                        /\ IdentifiedFor(k)[1].txt =
                              file.columns[CHOOSE i \in hits : \A j \in hits : i <= j]
          /\ NumOf("Identified columns:") =
                Cardinality({k \in 1..Len(FieldOrder) : HeadersOf(cols, FieldOrder[k]) # {}})
          /\ Printed("Column mapping needed. Available columns:")
                <=> \A k \in 1..Len(FieldOrder) : HeadersOf(cols, FieldOrder[k]) = {}

\* the map is printed for a table whose header 'CloseTime' comes before its
\* header 'Closed': closed is mapped to 'CloseTime', although 'Closed' is the
\* first alias, and state to 'Status', which comes before 'State'
C12_Witness ==
    /\ pc = "generate_output"
    /\ \E i, j \in 1..Len(file.columns) :
          i < j /\ file.columns[i] = H_CloseTime /\ file.columns[j] = H_Closed
    /\ Len(IdentifiedFor(2)) = 1 /\ IdentifiedFor(2)[1].txt = H_CloseTime
    /\ Len(IdentifiedFor(3)) = 1 /\ IdentifiedFor(3)[1].txt = H_Status
    /\ IdentifiedFor(1) = <<>>


\* the rows of the table with an empty first response, and those of them whose
\* state label is a closed or resolved one in any letter case
EmptyResponseRows == {r \in 1..Len(file.data) : isna(Column(file, H_FirstResponse)[r])}
ClosedLabelRows ==
    {r \in EmptyResponseRows :
        Column(file, H_State)[r] \in {Str(St_Closed), Str(St_closed), Str(St_CLOSED), Str(St_Resolved)}}

\* C13: the exclusion from the empty-first-response set does not depend on the
\* letter case of the state: the tickets excluded are exactly those whose state
\* is 'Closed', 'closed', 'CLOSED' or 'Resolved' (a ticket with state 'open' or
\* without a state is kept), and the printed counts satisfy
\* total after + excluded = total before.
C13_ExclusionIgnoresCase ==
    Printed("Total records with empty FirstResponse (excluding Closed/Resolved):") =>
       /\ NumOf(" - Before filtering (all empty FirstResponse):") = Cardinality(EmptyResponseRows)
       /\ NumOf(" - Excluded Closed/Resolved tickets:") = Cardinality(ClosedLabelRows)
       /\ NumOf("Total records with empty FirstResponse (excluding Closed/Resolved):")
             = Cardinality(EmptyResponseRows \ ClosedLabelRows)
       /\ NumOf("Total records with empty FirstResponse (excluding Closed/Resolved):")
             + NumOf(" - Excluded Closed/Resolved tickets:")
             = NumOf(" - Before filtering (all empty FirstResponse):")

\* the counts are printed for two tickets without a first response, one with
\* state 'CLOSED', which is excluded, and one with state 'open', which is kept
C13_Witness ==
    /\ Printed("Total records with empty FirstResponse (excluding Closed/Resolved):")
    /\ \E r, q \in EmptyResponseRows :
          /\ Column(file, H_State)[r] = Str(St_CLOSED)
          /\ Column(file, H_State)[q] = Str(St_open)
    /\ NumOf(" - Excluded Closed/Resolved tickets:") = 1
    /\ NumOf("Total records with empty FirstResponse (excluding Closed/Resolved):") = 1


\* a failed read of the spreadsheet has been reported, by prepare_data or by
\* analyze_otrs_tickets
ReadFailed == Printed("Error processing file:") \/ Printed("Error reading file:")

\* C14: once a failed read of the spreadsheet has been caught and reported, no
\* statistics, summary or report section is ever printed, nothing is raised,
\* the run can always take its next step until it has ended, and when it has
\* ended the output destination is the original one again.
C14_ReadFailureAborts ==
    ReadFailed =>
       /\ ~SectionStarted
       /\ ~Printed("ANALYSIS SUMMARY")
       /\ ~Printed("Identified columns:")
       /\ exception = "none"
       /\ pc \in {"generate_output", "restore", "done"}
       /\ pc # "done" => ENABLED Next
       /\ pc = "done" => sys_stdout = "original"

\* the run has ended after prepare_data reported a failed read of a table
\* that has rows: the output destination is the original one
C14_Witness ==
    /\ pc = "done"
    /\ Printed("Error processing file:")
    /\ Len(file.data) > 0
    /\ sys_stdout = "original"

\* C15: the output destination is the log file from the first step of the run
\* until its end, and it is the original one again whenever the run has
\* ended, be it after all sections, after a failed read or after an exception
\* raised in a report section.
C15_StdoutRestored ==
    /\ pc \in {"prepare_data", "generate_output", "firstresponse", "by_priority", "by_age",
               "restore"} => sys_stdout = "logfile"
    /\ pc \in {"done", "crashed"} => sys_stdout = "original"

============================================================================
